---- MODULE Spec2Model ----
(***************************************************************************)
(* Turn-taking state machine of the voice chat client (src/src/App.tsx).   *)
(*                                                                         *)
(* The component App holds the React state (isProcessing, messages), the   *)
(* reference cell conversationRef and the values handed out by the         *)
(* useSpeechRecognition hook (isListening, transcript, finalTranscript,    *)
(* isMicrophoneAvailable, browserSupportsSpeechRecognition).  The speech   *)
(* engine, the speech synthesiser and the answer endpoint are the          *)
(* environment: their events are actions whose inputs are drawn from small *)
(* sets.  Every handler of App.tsx is one action.                          *)
(*                                                                         *)
(* App.tsx calls SpeechRecognition.startListening() without options, that  *)
(* is, one-shot (non continuous) recognition: a capture session is cleared *)
(* on start, delivers at most one final result, and the engine reports the *)
(* end of the session in an event of its own, after the result.            *)
(***************************************************************************)
EXTENDS Integers, Sequences, FiniteSets, TLC

\* ---------------------------------------------------------------- bounds
\* finalized utterances the engine delivers in one run
MaxTurns == 2

\* ------------------------------------------------------- input universes
\* texts the speech engine may recognise (never empty)
Texts == {"hello", "where"}
\* answer, conversation id and message id the endpoint may return
Answers == {"a1"}
ConvIds == {"c1", "c2"}
MsgIds == {"m1"}

\* JavaScript undefined: a missing field of a decoded body, an unset value
Undefined == "undefined"
\* the single audio slot is free
NoUtterance == "<silent>"

\* ------------------------------------------------------------ constants
FailureMessage == "Failed to get the response, please try again"

InitialMessages ==
    << [type |-> "prompt", text |-> "Where is the Empire State Building?"],
       [type |-> "response", text |-> "Lorem ipsum"] >>

InitialConversation == [id |-> "", currentMessageId |-> ""]

\* ----------------------------------------------------- endpoint results
NoBody == [answer |-> Undefined, conversationId |-> Undefined, messageId |-> Undefined]

PendingResult == [kind |-> "pending", ok |-> FALSE, body |-> NoBody]

\* a 2xx response of the contract: all three fields present
SuccessBodies == [answer : Answers, conversationId : ConvIds, messageId : MsgIds]

\* a decodable JSON body of a non-2xx response: an error document in which
\* any of the three fields may be missing
ErrorBodies ==
    [answer : {Undefined}, conversationId : ConvIds \cup {Undefined}, messageId : {Undefined}]

\* how a fetch may settle:
\*   rejected    - transport error, fetch() rejects
\*   undecodable - res.json() rejects (also a body that decodes to null, for
\*                 which reading res.conversationId throws): the catch handler
\*                 runs whatever the HTTP status was
\*   json        - the body decodes to an object; ok is the HTTP status class
Results ==
    {[kind |-> "rejected", ok |-> FALSE, body |-> NoBody]}
    \cup {[kind |-> "undecodable", ok |-> TRUE, body |-> NoBody]}
    \cup {[kind |-> "json", ok |-> TRUE, body |-> b] : b \in SuccessBodies}
    \cup {[kind |-> "json", ok |-> FALSE, body |-> b] : b \in ErrorBodies}

\* ---------------------------------------------------------------- state
VARIABLES
    browserSupportsSpeechRecognition, \* hook: capability flag
    micGranted,                       \* environment: microphone permission
    isMicrophoneAvailable,            \* hook: permission as seen by App
    isListening,                      \* hook: listening
    transcript,                       \* hook: live transcript
    finalTranscript,                  \* hook: finalized transcript
    engineFinal,                      \* engine: this session delivered its final result
    isProcessing,                     \* useState(false)
    messages,                         \* useState<Message[]>
    conversationRef,                  \* useRef({id, currentMessageId}).current
    utterance,                        \* window.speechSynthesis: text being played
    requests,                         \* every fetch issued, with how it settled
    log,                              \* history of the turn events, in program order
    lastEvent,                        \* history: the handler that ran last
    preempted,                        \* history: that handler cut off a playing utterance
    finalEvents                       \* history: final results received while listening

vars == << browserSupportsSpeechRecognition, micGranted, isMicrophoneAvailable,
           isListening, transcript, finalTranscript, engineFinal, isProcessing,
           messages, conversationRef, utterance, requests, log, lastEvent, preempted,
           finalEvents >>

\* -------------------------------------------------------------- helpers
OutstandingIn(reqs) == {n \in 1..Len(reqs) : reqs[n].result.kind = "pending"}

Outstanding == OutstandingIn(requests)

\* x || undefined
OrUndefined(v) == IF v = "" \/ v = Undefined THEN Undefined ELSE v

\* body of the POST, read from the reference cell when the effect runs
RequestBody(ft) ==
    [text |-> ft,
     conversationId |-> OrUndefined(conversationRef.id),
     parentMessageId |-> OrUndefined(conversationRef.currentMessageId)]

\* variant: the control is never disabled
MicDisabled_Never == FALSE

\* variant: the control is disabled while listening instead
MicDisabled_WhileListening == isListening

\* disabled={isProcessing}
MicDisabled == isProcessing

\* variant: no cancel, the text is queued behind the playing utterance
speak_Queued(text) == IF utterance # NoUtterance THEN utterance ELSE text

\* speak(text): cancel, then play text; the value of the audio slot afterwards
speak(text) == text

\* variant: the finalized text is stored as a response entry
AppendPrompt_AsResponse(msgs, ft) == Append(msgs, [type |-> "response", text |-> ft])

\* setMessages(old => [...old, {type: 'prompt', text}])
AppendPrompt(msgs, ft) == Append(msgs, [type |-> "prompt", text |-> ft])

\* variant: the response replaces the last entry instead of following it
AppendResponse_Overwrite(msgs, text) ==
    [msgs EXCEPT ![Len(msgs)] = [type |-> "response", text |-> text]]

\* setMessages(old => [...old, {type: 'response', text}])
AppendResponse(msgs, text) == Append(msgs, [type |-> "response", text |-> text])

\* variant: the request is issued before the prompt entry is appended
EffectEvents_FetchFirst(n, ft) ==
    << [ev |-> "fetch", req |-> n, text |-> ft],
       [ev |-> "prompt", req |-> n, text |-> ft] >>

\* the statements of the effect, in program order, for request n
EffectEvents(n, ft) ==
    << [ev |-> "prompt", req |-> n, text |-> ft],
       [ev |-> "fetch", req |-> n, text |-> ft] >>

\* the promise chain runs the success handler for every decoded object,
\* whatever the HTTP status; everything else lands in the catch handler
ThenHandlerRuns(r) == r.kind = "json"

\* variant: the success handler forgets the message id
SettledConversation_IdOnly(r) ==
    IF ThenHandlerRuns(r)
    THEN [id |-> r.body.conversationId, currentMessageId |-> conversationRef.currentMessageId]
    ELSE conversationRef

\* conversationRef.current after the chain has run for result r
SettledConversation(r) ==
    IF ThenHandlerRuns(r)
    THEN [id |-> r.body.conversationId, currentMessageId |-> r.body.messageId]
    ELSE conversationRef

\* text of the response entry, and of the speak call, for result r
ResponseText(r) == IF ThenHandlerRuns(r) THEN r.body.answer ELSE FailureMessage

\* variant: the flag is cleared by the success handler only
SettledProcessing_ThenOnly(r) == IF ThenHandlerRuns(r) THEN FALSE ELSE isProcessing

\* variant: the chain has no finally handler
SettledProcessing_NoFinally(r) == isProcessing

\* isProcessing after the chain has run: finally(() => setIsProcessing(false))
SettledProcessing(r) == FALSE

\* the statements of the promise chain, in program order, for request n
SettleEvents(n, r) ==
    << [ev |-> "settle", req |-> n, text |-> r.kind],
       [ev |-> "response", req |-> n, text |-> ResponseText(r)],
       [ev |-> "speak", req |-> n, text |-> ResponseText(r)] >>

\* variant: a prompt entry is active in the last position only
getIsActive_LastOnly(msgs, listening, i) ==
    IF listening THEN FALSE
    ELSE IF msgs[i].type = "prompt" THEN i = Len(msgs)
    ELSE IF msgs[i].type = "response" THEN i = Len(msgs)
    ELSE FALSE

\* getIsActive of the entry at position i (1-based) of the rendered list
getIsActive(msgs, listening, i) ==
    IF listening THEN FALSE
    ELSE IF msgs[i].type = "prompt" THEN i = Len(msgs) \/ i = Len(msgs) - 1
    ELSE IF msgs[i].type = "response" THEN i = Len(msgs)
    ELSE FALSE

\* ----------------------------------------------------------------- Init
Init ==
    /\ browserSupportsSpeechRecognition \in BOOLEAN
    /\ micGranted \in BOOLEAN
    /\ isMicrophoneAvailable = TRUE
    /\ isListening = FALSE
    /\ transcript = ""
    /\ finalTranscript = ""
    /\ engineFinal = FALSE
    /\ isProcessing = FALSE
    /\ messages = InitialMessages
    /\ conversationRef = InitialConversation
    /\ utterance = NoUtterance
    /\ requests = << >>
    /\ log = << >>
    /\ lastEvent = "mount"
    /\ preempted = FALSE
    /\ finalEvents = 0

\* -------------------------------------------- the finalTranscript effect
\* variant: the effect body without its if (finalTranscript) guard
FinalTranscriptEffect_NoGuard(ft) ==
    /\ messages' = AppendPrompt(messages, ft)
    /\ isProcessing' = TRUE
    /\ requests' = Append(requests,
           [body |-> RequestBody(ft),
            convAtIssue |-> conversationRef,
            result |-> PendingResult])
    /\ log' = log \o EffectEvents(Len(requests) + 1, ft)

\* useEffect(..., [finalTranscript, speak]) body, run with the new value ft
FinalTranscriptEffect(ft) ==
    IF ft # ""
    THEN /\ messages' = AppendPrompt(messages, ft)
         /\ isProcessing' = TRUE
         /\ requests' = Append(requests,
                [body |-> RequestBody(ft),
                 convAtIssue |-> conversationRef,
                 result |-> PendingResult])
         /\ log' = log \o EffectEvents(Len(requests) + 1, ft)
    ELSE UNCHANGED << messages, isProcessing, requests, log >>

\* the hook hands out a new finalTranscript; the effect runs when it changed
SetFinalTranscript(ft) ==
    /\ finalTranscript' = ft
    /\ IF ft # finalTranscript
       THEN FinalTranscriptEffect(ft)
       ELSE UNCHANGED << messages, isProcessing, requests, log >>

\* ------------------------------------------------------ the mic control
\* variant: capture is stopped and the live transcript is finalized
abortListening_Finalizing ==
    /\ isListening' = FALSE
    /\ preempted' = FALSE
    /\ SetFinalTranscript(transcript)
    /\ UNCHANGED << transcript, engineFinal, isMicrophoneAvailable, utterance >>

\* SpeechRecognition.abortListening(): capture stops, nothing is finalized
abortListening ==
    /\ isListening' = FALSE
    /\ preempted' = FALSE
    /\ UNCHANGED << finalTranscript, messages, isProcessing, requests, log >>
    /\ UNCHANGED << transcript, engineFinal, isMicrophoneAvailable, utterance >>

\* variant: capture is started without cancelling the speech output
startListening_NoCancel ==
    /\ UNCHANGED utterance
    /\ preempted' = FALSE
    /\ transcript' = ""
    /\ SetFinalTranscript("")
    /\ IF micGranted
       THEN /\ isListening' = TRUE
            /\ engineFinal' = FALSE
            /\ UNCHANGED isMicrophoneAvailable
       ELSE /\ isMicrophoneAvailable' = FALSE
            /\ UNCHANGED << isListening, engineFinal >>

\* speechSynthesis.cancel(); SpeechRecognition.startListening()
startListening ==
    /\ utterance' = NoUtterance
    /\ preempted' = (utterance # NoUtterance)
    /\ transcript' = ""
    /\ SetFinalTranscript("")
    /\ IF micGranted
       THEN /\ isListening' = TRUE
            /\ engineFinal' = FALSE
            /\ UNCHANGED isMicrophoneAvailable
       ELSE /\ isMicrophoneAvailable' = FALSE
            /\ UNCHANGED << isListening, engineFinal >>

recognizeSpeech == IF isListening THEN abortListening ELSE startListening

\* the user presses the mic button
ToggleMic ==
    /\ browserSupportsSpeechRecognition
    /\ ~MicDisabled
    /\ recognizeSpeech
    /\ lastEvent' = IF isListening THEN "toggleOff" ELSE "toggleOn"
    /\ UNCHANGED << browserSupportsSpeechRecognition, micGranted, conversationRef, finalEvents >>

\* ----------------------------------------------------- the speech engine
\* an interim result: only the live transcript changes
EngineInterim(t) ==
    /\ isListening
    /\ ~engineFinal
    /\ transcript' = t
    /\ lastEvent' = "interim"
    /\ preempted' = FALSE
    /\ UNCHANGED << browserSupportsSpeechRecognition, micGranted, isMicrophoneAvailable,
                    isListening, finalTranscript, engineFinal, isProcessing, messages,
                    conversationRef, utterance, requests, log, finalEvents >>

\* the final result of the capture session
EngineFinalResult(t) ==
    /\ isListening
    /\ ~engineFinal
    /\ finalEvents < MaxTurns
    /\ engineFinal' = TRUE
    /\ transcript' = t
    /\ finalEvents' = finalEvents + 1
    /\ SetFinalTranscript(t)
    /\ lastEvent' = "final"
    /\ preempted' = FALSE
    /\ UNCHANGED << browserSupportsSpeechRecognition, micGranted, isMicrophoneAvailable,
                    isListening, conversationRef, utterance >>

\* the engine ends the capture session by itself
EngineEnd ==
    /\ isListening
    /\ isListening' = FALSE
    /\ lastEvent' = "end"
    /\ preempted' = FALSE
    /\ UNCHANGED << browserSupportsSpeechRecognition, micGranted, isMicrophoneAvailable,
                    transcript, finalTranscript, engineFinal, isProcessing, messages,
                    conversationRef, utterance, requests, log, finalEvents >>

\* ------------------------------------------------------ the answer request
\* request n settles with result r: then / catch / finally
Settle(n, r) ==
    /\ n \in Outstanding
    /\ requests' = [requests EXCEPT ![n].result = r]
    /\ conversationRef' = SettledConversation(r)
    /\ messages' = AppendResponse(messages, ResponseText(r))
    /\ utterance' = speak(ResponseText(r))
    /\ isProcessing' = SettledProcessing(r)
    /\ log' = log \o SettleEvents(n, r)
    /\ lastEvent' = "settle"
    /\ preempted' = (utterance # NoUtterance)
    /\ UNCHANGED << browserSupportsSpeechRecognition, micGranted, isMicrophoneAvailable,
                    isListening, transcript, finalTranscript, engineFinal, finalEvents >>

\* ---------------------------------------------------------- speech output
\* the user selects a rendered entry: onClick={speak}
Replay(i) ==
    /\ browserSupportsSpeechRecognition
    /\ i \in 1..Len(messages)
    /\ utterance' = speak(messages[i].text)
    /\ lastEvent' = "replay"
    /\ preempted' = (utterance # NoUtterance)
    /\ UNCHANGED << browserSupportsSpeechRecognition, micGranted, isMicrophoneAvailable,
                    isListening, transcript, finalTranscript, engineFinal, isProcessing,
                    messages, conversationRef, requests, log, finalEvents >>

\* the synthesiser finishes the utterance
PlaybackEnd ==
    /\ utterance # NoUtterance
    /\ utterance' = NoUtterance
    /\ lastEvent' = "playbackEnd"
    /\ preempted' = FALSE
    /\ UNCHANGED << browserSupportsSpeechRecognition, micGranted, isMicrophoneAvailable,
                    isListening, transcript, finalTranscript, engineFinal, isProcessing,
                    messages, conversationRef, requests, log, finalEvents >>

\* ------------------------------------------------------------------ Next
Next ==
    \/ ToggleMic
    \/ \E t \in Texts : EngineInterim(t)
    \/ \E t \in Texts : EngineFinalResult(t)
    \/ EngineEnd
    \/ \E n \in 1..Len(requests) : \E r \in Results : Settle(n, r)
    \/ \E i \in 1..Len(messages) : Replay(i)
    \/ PlaybackEnd

Spec == Init /\ [][Next]_vars

\* the engine ends every one-shot capture session: a session that stays
\* open is eventually closed by the engine's end event
FairSpec == Spec /\ WF_vars(EngineEnd)

TypeOK ==
    /\ isListening \in BOOLEAN
    /\ isProcessing \in BOOLEAN
    /\ finalEvents \in 0..MaxTurns
    /\ Len(requests) <= MaxTurns

\* ------------------------------------------------------- derived notions
NumPrompts(msgs) == Cardinality({i \in 1..Len(msgs) : msgs[i].type = "prompt"})

Settled(n) == n \in 1..Len(requests) /\ requests[n].result.kind # "pending"

\* success and failure of a request as the interface defines them:
\* success is a decoded 2xx response, anything else that settles is a failure
Succeeded(r) == r.kind = "json" /\ r.ok

Failed(r) == r.kind # "pending" /\ ~Succeeded(r)

IsEmptyId(v) == v = "" \/ v = Undefined

\* positions of the events of kind e logged for request n
EventsOf(e, n) == {i \in 1..Len(log) : log[i].ev = e /\ log[i].req = n}

\* ------------------------------------------------------------------- C1
\* C1: at most one answer request is outstanding at any time.
C1_SingleInFlight == Cardinality(Outstanding) <= 1

\* a second request is outstanding after the first one has settled
C1_Witness == Len(requests) >= 2 /\ Settled(1) /\ 2 \in Outstanding

\* ------------------------------------------------------------------- C2
\* C2: the session is never both listening and awaiting an answer
\* (isListening and isProcessing are never true together).
C2_NeverListeningAndAwaiting == ~(isListening /\ isProcessing)

\* ------------------------------------------------------------------- C3
\* C3: the mic control is disabled exactly while a request is outstanding.
C3_DisabledIffOutstanding == MicDisabled <=> (Outstanding # {})

\* a request is outstanding, with the control disabled, after an earlier
\* request settled in failure
C3_Witness ==
    /\ Len(requests) >= 2
    /\ Failed(requests[1].result)
    /\ 2 \in Outstanding
    /\ MicDisabled

\* ------------------------------------------------------------------- C4
\* C4 as stated: the number of Prompt entries equals the number of final
\* results received while listening.
C4_PromptsEqualFinalEvents == NumPrompts(messages) = finalEvents

\* C4 (amended): the number of Prompt entries equals the number of Prompt
\* entries of the initial transcript plus the number of final results
\* received while listening.
C4_PromptsEqualSeedPlusFinalEvents ==
    NumPrompts(messages) = NumPrompts(InitialMessages) + finalEvents

\* two final results have been received and turned into prompts
C4_Witness == finalEvents >= 2 /\ NumPrompts(messages) >= 3

\* ------------------------------------------------------------------- C5
\* C5: after a failed request (transport error, non-2xx status, undecodable
\* body) the conversation state equals its value before the request was issued.
C5_FailureKeepsConversation ==
    \A n \in 1..Len(requests) :
        (n = Len(requests) /\ Failed(requests[n].result))
            => conversationRef = requests[n].convAtIssue

\* ------------------------------------------------------------------- C6
\* C6: after a successful request the conversation state holds the returned
\* conversationId and messageId, and the next request carries exactly those
\* values as conversationId and parentMessageId.
C6_SuccessThreadsIds ==
    \A n \in 1..Len(requests) :
        Succeeded(requests[n].result) =>
            /\ n = Len(requests) =>
                  /\ conversationRef.id = requests[n].result.body.conversationId
                  /\ conversationRef.currentMessageId = requests[n].result.body.messageId
            /\ n < Len(requests) =>
                  /\ requests[n + 1].body.conversationId
                        = requests[n].result.body.conversationId
                  /\ requests[n + 1].body.parentMessageId
                        = requests[n].result.body.messageId

\* a request has been issued after a successful one
C6_Witness ==
    /\ Len(requests) >= 2
    /\ Succeeded(requests[1].result)
    /\ requests[2].body.conversationId \in ConvIds
    /\ requests[2].body.parentMessageId \in MsgIds

\* ------------------------------------------------------------------- C7
\* C7: once conversationId is non-empty it is non-empty in every later state.
C7_ConversationIdNeverCleared ==
    [][~IsEmptyId(conversationRef.id) => ~IsEmptyId(conversationRef'.id)]_vars

\* ------------------------------------------------------------------- C8
\* C8: toggling the mic off while listening, before a final result, leaves
\* the transcript, the conversation state, the processing flag and the
\* requests unchanged, and the session is idle afterwards.
C8_AbortBeforeFinalIsSilent ==
    [][(isListening /\ ~engineFinal /\ ToggleMic) =>
            /\ messages' = messages
            /\ conversationRef' = conversationRef
            /\ isProcessing' = isProcessing
            /\ requests' = requests
            /\ ~isListening'
            /\ ~isProcessing']_vars

\* capture was aborted with a live transcript and nothing finalized
C8_Witness ==
    /\ lastEvent = "toggleOff"
    /\ ~isListening
    /\ ~engineFinal
    /\ transcript # ""
    /\ finalEvents = 0
    /\ isMicrophoneAvailable
    /\ messages = InitialMessages

\* ------------------------------------------------------------------- C9
\* C9: the Prompt entry of an utterance is appended before its request is
\* issued, and the Response entry of a request is appended only after that
\* request has settled.
C9_PromptThenFetchThenResponse ==
    /\ \A i \in 1..Len(log) :
          log[i].ev = "fetch" =>
              \E j \in 1..(i - 1) :
                  log[j] = [ev |-> "prompt", req |-> log[i].req, text |-> log[i].text]
    /\ \A i \in 1..Len(log) :
          log[i].ev = "response" =>
              /\ Settled(log[i].req)
              /\ \E j \in 1..(i - 1) : log[j].ev = "settle" /\ log[j].req = log[i].req
              /\ \E j \in 1..(i - 1) : log[j].ev = "fetch" /\ log[j].req = log[i].req
    /\ \A n \in Outstanding : EventsOf("response", n) = {}

\* two turns have run to their responses
C9_Witness ==
    /\ EventsOf("response", 1) # {}
    /\ EventsOf("response", 2) # {}

\* ------------------------------------------------------------------ C10
\* C10: each settled request produces exactly one Response entry and exactly
\* one speak call; on success both carry the returned answer, on failure
\* both carry the fixed failure message.
C10_OneResponseOneSpeak ==
    \A n \in 1..Len(requests) :
        Settled(n) =>
            LET r == requests[n].result
                expected == IF Succeeded(r) THEN r.body.answer ELSE FailureMessage
            IN /\ Cardinality(EventsOf("response", n)) = 1
               /\ Cardinality(EventsOf("speak", n)) = 1
               /\ \A i \in EventsOf("response", n) \cup EventsOf("speak", n) :
                     log[i].text = expected

\* ------------------------------------------------------------------ C11
\* C11: when the user toggles the mic on, the speech output is cancelled
\* before capture starts: no state right after the toggle has capture
\* started and an utterance still playing.
C11_ToggleOnCancelsPlayback ==
    (lastEvent = "toggleOn" /\ isListening) => utterance = NoUtterance

\* capture was started by a toggle that cut off a playing utterance
C11_Witness ==
    /\ lastEvent = "toggleOn"
    /\ isListening
    /\ preempted
    /\ utterance = NoUtterance

\* ------------------------------------------------------------------ C12
Idle == ~isListening /\ ~isProcessing

\* C12: every settlement is eventually followed by a state in which the
\* session is Idle with the mic control enabled, and as long as a request
\* has not settled the session stays in AwaitingAnswer with the control
\* disabled (no timeout, no cancellation).
C12_SettleLeadsToIdle ==
    /\ (lastEvent = "settle") ~> (Idle /\ ~MicDisabled)
    /\ [][\A n \in Outstanding :
             n \in OutstandingIn(requests') => (isProcessing' /\ MicDisabled')]_vars

\* a request settled while capture was still open, so Idle is not reached
\* by the settlement itself
C12_Witness == lastEvent = "settle" /\ isListening /\ ~isProcessing

\* ------------------------------------------------------------------ C13
\* positions of the entries of type ty, and the most recent of them (0: none)
PositionsOf(ty) == {i \in 1..Len(messages) : messages[i].type = ty}

MostRecent(S) == IF S = {} THEN 0 ELSE CHOOSE i \in S : \A j \in S : j <= i

LastResponse == MostRecent(PositionsOf("response"))

LastPrompt == MostRecent(PositionsOf("prompt"))

\* the two most recent prompt entries before the most recent response
PromptsBeforeLastResponse == {i \in PositionsOf("prompt") : i < LastResponse}

TwoPromptsBeforeLastResponse ==
    {i \in PromptsBeforeLastResponse :
        Cardinality({j \in PromptsBeforeLastResponse : j > i}) < 2}

\* C13 as stated: while listening no stored entry is active; while not
\* listening exactly the most recent response entry and the two most recent
\* prompt entries before it are active.
C13_ActiveAsStated ==
    \A i \in 1..Len(messages) :
        getIsActive(messages, isListening, i)
            <=> (~isListening /\ (i = LastResponse \/ i \in TwoPromptsBeforeLastResponse))

\* C13 (amended): while listening no stored entry is active; while not
\* listening the most recent prompt entry is active, the most recent
\* response entry is active only when it comes after that prompt (the
\* request has been answered), and no other entry is active.
C13_ActiveView ==
    \A i \in 1..Len(messages) :
        getIsActive(messages, isListening, i)
            <=> (~isListening /\ (i = LastPrompt \/ (i = LastResponse /\ LastResponse > LastPrompt)))

\* the view is computed for an answered turn that follows an earlier turn
C13_Witness ==
    /\ ~isListening
    /\ Len(messages) >= 6
    /\ LastResponse = Len(messages)
    /\ getIsActive(messages, isListening, Len(messages) - 1)
    /\ ~getIsActive(messages, isListening, Len(messages) - 3)

\* ------------------------------------------------------------------ C14
IsPrefix(a, b) == Len(a) <= Len(b) /\ \A i \in 1..Len(a) : b[i] = a[i]

\* C14: the transcript is append-only: in every step the previous
\* transcript is a prefix of the new one.
C14_AppendOnly == [][IsPrefix(messages, messages')]_vars

\* two prompts and two responses have been appended behind the initial entries
C14_Witness ==
    /\ Len(messages) = Len(InitialMessages) + 4
    /\ IsPrefix(InitialMessages, messages)

\* ------------------------------------------------------------------ C15
\* the entries appended during the session, in append order, with their request
IsEntryEvent(e) == e.ev = "prompt" \/ e.ev = "response"

AppendedEntries == SelectSeq(log, IsEntryEvent)

\* C15: every Response entry sits immediately after the Prompt entry of its
\* own request, and the entries appended during the session alternate
\* Prompt, Response in request order.
C15_ResponseFollowsOwnPrompt ==
    LET E == AppendedEntries
        base == Len(InitialMessages)
    IN /\ Len(messages) = base + Len(E)
       /\ \A k \in 1..Len(E) :
             /\ messages[base + k] = [type |-> E[k].ev, text |-> E[k].text]
             /\ E[k].ev = "response" =>
                   /\ k > 1
                   /\ E[k - 1].ev = "prompt"
                   /\ E[k - 1].req = E[k].req
             /\ E[k].ev = "prompt" =>
                   /\ E[k].req = (k + 1) \div 2
                   /\ k > 1 => E[k - 1].ev = "response"

\* two turns have been answered, the second response behind the second prompt
C15_Witness ==
    /\ Len(AppendedEntries) = 4
    /\ AppendedEntries[4].ev = "response"
    /\ AppendedEntries[4].req = 2
    /\ AppendedEntries[3].text # AppendedEntries[1].text

\* ------------------------------------------------------------------ C16
\* C16: every request issued before any request of the session has
\* succeeded carries conversationId and parentMessageId as absent, also
\* after failed requests.
C16_AbsentIdsBeforeFirstSuccess ==
    \A n \in 1..Len(requests) :
        (\A m \in 1..(n - 1) : ~Succeeded(requests[m].result)) =>
            /\ requests[n].body.conversationId = Undefined
            /\ requests[n].body.parentMessageId = Undefined

\* ------------------------------------------------------------------ C17
\* the mic button never aborts capture while a request is outstanding: the
\* case C17 speaks about (toggle off with a request in flight) does not occur
ToggleNeverMeetsOutstandingRequest == [][ToggleMic => Outstanding = {}]_vars

\* ------------------------------------------------------------------ C18
\* C18: replaying an entry puts that entry's text into the single audio
\* slot, whatever was playing, and leaves the transcript, the conversation
\* state, the requests and the turn status unchanged; an entry can be
\* replayed in every turn status.
C18_ReplayOnlySpeaks ==
    /\ [][\A i \in 1..Len(messages) :
             Replay(i) =>
                 /\ utterance' = messages[i].text
                 /\ messages' = messages
                 /\ conversationRef' = conversationRef
                 /\ requests' = requests
                 /\ isListening' = isListening
                 /\ isProcessing' = isProcessing]_vars
    /\ [](browserSupportsSpeechRecognition =>
             \A i \in 1..Len(messages) : ENABLED Replay(i))

\* an entry was replayed over a playing utterance while a request was outstanding
C18_Witness ==
    /\ lastEvent = "replay"
    /\ preempted
    /\ isProcessing
    /\ Outstanding # {}
    /\ \E i \in 1..Len(messages) : utterance = messages[i].text

\* ------------------------------------------------------------------ C19
\* C19: a step in which the finalized transcript becomes or stays the empty
\* string, or keeps its value, appends no Prompt entry, issues no request
\* and does not set the processing flag.
C19_EffectNeedsNewNonEmptyTranscript ==
    [][(finalTranscript' = "" \/ finalTranscript' = finalTranscript) =>
            /\ NumPrompts(messages') = NumPrompts(messages)
            /\ Len(requests') = Len(requests)
            /\ isProcessing' => isProcessing]_vars

\* a new capture reset a non-empty finalized transcript to the empty string
C19_Witness ==
    /\ lastEvent = "toggleOn"
    /\ finalTranscript = ""
    /\ isListening
    /\ Len(requests) >= 1
    /\ ~isProcessing
    /\ NumPrompts(messages) = NumPrompts(InitialMessages) + Len(requests)
====
